---- MODULE Spec2Model ----
(***************************************************************************)
(* Model of swagftw/httplib, src/main.go: the line-by-line request parser  *)
(* Request.parse and the connection handler handleConnection_v5 that       *)
(* drives it and writes the response.                                      *)
(*                                                                         *)
(* A Go string is a sequence of one-character strings.                     *)
(*                                                                         *)
(* req, err, line are the handler's variables of the same names; the      *)
(* connection is connClosed and connWritten (the bytes on the wire); pc is *)
(* the handler's position; eof records that scanner.Scan() returned false; *)
(* parseCalls counts the calls of parse and fed lists the lines the        *)
(* scanner delivered to it, in order; writeCalls lists the buffers given   *)
(* to conn.Write and writeErr is whether the last of them failed.          *)
(***************************************************************************)
EXTENDS Integers, Sequences, FiniteSets, TLC

VARIABLES req, err, line, parseCalls, fed, eof, pc, connClosed, connWritten,
          writeCalls, writeErr,
          mainPc, acceptPc, dispatchPc, chanClosed, listenerClosed, conn,
          nAccepted, dispatched, units

\* the goroutines of main: the shutdown sequence, the accept loop, and
\* handleConnections with the handling units it starts
serverVars ==
    <<mainPc, acceptPc, dispatchPc, chanClosed, listenerClosed, conn, nAccepted,
      dispatched, units>>

vars ==
    <<req, err, line, parseCalls, fed, eof, pc, connClosed, connWritten,
      writeCalls, writeErr, serverVars>>

(***************************************************************************)
(* Bounds.                                                                 *)
(***************************************************************************)
\* every string over Alphabet of at most this length is a possible line
MaxLineLen == 2
\* most lines one connection delivers before its stream ends
MaxLines == 4
\* most calls of Request.parse made by the free driver of the parser
MaxCalls == 3
\* most connections the listener accepts
MaxConns == 2
\* most lines a connection of the server delivers before its stream ends
MaxUnitLines == 2
\* most bytes a failing conn.Write puts on the wire
MaxShortWrite == 1

(***************************************************************************)
(* Strings.                                                                *)
(***************************************************************************)
Alphabet == {"A", " ", ":"}

Upper == <<"A","B","C","D","E","F","G","H","I","J","K","L","M",
           "N","O","P","Q","R","S","T","U","V","W","X","Y","Z">>

Lower == <<"a","b","c","d","e","f","g","h","i","j","k","l","m",
           "n","o","p","q","r","s","t","u","v","w","x","y","z">>

Digits == <<"0","1","2","3","4","5","6","7","8","9">>

SP == <<" ">>

ColonSP == <<":", " ">>

CRLF == <<"\r", "\n">>

\* the lower-case letter of each upper-case letter
LowerOf == [c \in {Upper[i] : i \in 1..Len(Upper)} |->
               Lower[CHOOSE i \in 1..Len(Upper) : Upper[i] = c]]

\* strings.ToLower on one ASCII character
ToLowerChar(c) == IF c \in DOMAIN LowerOf THEN LowerOf[c] ELSE c

\* strings.ToLower
ToLower(s) == [i \in 1..Len(s) |-> ToLowerChar(s[i])]

\* s[from:] has prefix sep
HasPrefixAt(s, sep, from) ==
    /\ from + Len(sep) - 1 <= Len(s)
    /\ \A k \in 1..Len(sep) : s[from + k - 1] = sep[k]

RECURSIVE IndexFrom(_, _, _)
IndexFrom(s, sep, from) ==
    IF from + Len(sep) - 1 > Len(s) THEN 0
    ELSE IF HasPrefixAt(s, sep, from) THEN from
    ELSE IndexFrom(s, sep, from + 1)

\* strings.Index, 1-based; 0 when sep does not occur in s
Index(s, sep) == IndexFrom(s, sep, 1)

\* s[m+len(sep):] for a 1-based m
After(s, sep, m) == SubSeq(s, m + Len(sep), Len(s))

RECURSIVE Count(_, _)
\* strings.Count: the non-overlapping occurrences of sep in s
Count(s, sep) ==
    LET m == Index(s, sep)
    IN  IF m = 0 THEN 0 ELSE 1 + Count(After(s, sep, m), sep)

RECURSIVE genSplit(_, _, _)
\* strings.genSplit for a non-empty sep and n >= 1 pieces
genSplit(s, sep, n) ==
    LET m == Index(s, sep)
    IN  IF n <= 1 \/ m = 0 THEN <<s>>
        ELSE <<SubSeq(s, 1, m - 1)>> \o genSplit(After(s, sep, m), sep, n - 1)

\* strings.Split(s, sep)
Split(s, sep) == genSplit(s, sep, Count(s, sep) + 1)

\* SplitN that ignores the piece limit n
SplitN_Unlimited(s, sep, n) == Split(s, sep)

\* strings.SplitN(s, sep, n)
SplitN(s, sep, n) ==
    IF n = 0 THEN <<>>
    ELSE IF n < 0 THEN Split(s, sep)
    ELSE genSplit(s, sep, n)

RECURSIVE Itoa(_)
\* strconv.Itoa for n >= 0
Itoa(n) ==
    IF n < 10 THEN <<Digits[n + 1]>>
    ELSE Itoa(n \div 10) \o <<Digits[(n % 10) + 1]>>

(***************************************************************************)
(* The lines a connection can deliver: every short string over Alphabet,   *)
(* and the request lines of the clients.                                   *)
(***************************************************************************)
RECURSIVE StringsOfLen(_)
StringsOfLen(n) ==
    IF n = 0 THEN {<<>>}
    ELSE {Append(s, c) : s \in StringsOfLen(n - 1), c \in Alphabet}

ShortLines == UNION {StringsOfLen(n) : n \in 0..MaxLineLen}

GetRoot == <<"G","E","T"," ","/"," ","H","T","T","P","/","1",".","1">>

PostRoot == <<"P","O","S","T"," ","/"," ","H","T","T","P","/","1",".","1">>

HostHeader == <<"H","o","s","t",":"," ","l","o","c","a","l","h","o","s","t",":","8","0","8","0">>

HostLower == <<"h","o","s","t",":"," ","A",":"," ","b">>

ContentLength2 == <<"C","o","n","t","e","n","t","-","L","e","n","g","t","h",":"," ","2">>

ClientLines == {GetRoot, PostRoot, HostHeader, HostLower, ContentLength2}

Lines == ShortLines \cup ClientLines

(***************************************************************************)
(* Request and Request.parse.                                              *)
(***************************************************************************)
Nil == "nil"

ErrProtocol == "protocol line is not valid"

ErrHeader == "invalid header"

NoHeaders == [k \in {} |-> <<>>]

\* new(Request) with Headers = make(map[string]string)
NewRequest ==
    [Protocol |-> <<>>, Method |-> <<>>, Path |-> <<>>, Headers |-> NoHeaders,
     wroteProtocol |-> FALSE, wroteHeaders |-> FALSE, Body |-> <<>>, done |-> FALSE]

\* a map store that keeps the value a key already has
MapSet_KeepFirst(m, key, val) ==
    [k \in (DOMAIN m) \cup {key} |-> IF k \in DOMAIN m THEN m[k] ELSE val]

\* m[key] = val
MapSet(m, key, val) ==
    [k \in (DOMAIN m) \cup {key} |-> IF k = key THEN val ELSE m[k]]

\* the branch of parse for a zero-length line
parseBlank(r) ==
    [req |-> [r EXCEPT !.wroteHeaders = TRUE, !.done = TRUE], err |-> Nil]

\* parseProtocol that stores the method before it checks the field count
parseProtocol_AssignFirst(r, l) ==
    LET splits == Split(l, SP)
    IN  IF Len(splits) # 3
        THEN [req |-> [r EXCEPT !.Method = splits[1]], err |-> ErrProtocol]
        ELSE [req |-> [r EXCEPT !.Method = splits[1], !.Path = splits[2],
                                !.Protocol = splits[3], !.wroteProtocol = TRUE],
              err |-> Nil]

\* parseProtocol with Method and Path taken from each other's field
parseProtocol_Swapped(r, l) ==
    LET splits == Split(l, SP)
    IN  IF Len(splits) # 3 THEN [req |-> r, err |-> ErrProtocol]
        ELSE [req |-> [r EXCEPT !.Method = splits[2], !.Path = splits[1],
                                !.Protocol = splits[3], !.wroteProtocol = TRUE],
              err |-> Nil]

\* the branch of parse for the protocol line
parseProtocol(r, l) ==
    LET splits == Split(l, SP)
    IN  IF Len(splits) # 3 THEN [req |-> r, err |-> ErrProtocol]
        ELSE [req |-> [r EXCEPT !.Method = splits[1], !.Path = splits[2],
                                !.Protocol = splits[3], !.wroteProtocol = TRUE],
              err |-> Nil]

\* parseHeader that lower-cases the name only
parseHeader_KeepValueCase(r, l) ==
    LET splits == SplitN(l, ColonSP, 2)
    IN  IF Len(splits) # 2 THEN [req |-> r, err |-> ErrHeader]
        ELSE [req |-> [r EXCEPT !.Headers =
                          MapSet(r.Headers, ToLower(splits[1]), splits[2])],
              err |-> Nil]

\* the branch of parse for a header line
parseHeader(r, l) ==
    LET splits == SplitN(l, ColonSP, 2)
    IN  IF Len(splits) # 2 THEN [req |-> r, err |-> ErrHeader]
        ELSE [req |-> [r EXCEPT !.Headers =
                          MapSet(r.Headers, ToLower(splits[1]), ToLower(splits[2]))],
              err |-> Nil]

\* parse whose header branch does not test wroteHeaders
parse_NoHeadersGuard(r, l) ==
    IF Len(l) = 0 THEN parseBlank(r)
    ELSE IF ~r.wroteProtocol THEN parseProtocol(r, l)
    ELSE parseHeader(r, l)

\* parse that tries the header branch before the protocol branch
parse_HeaderFirst(r, l) ==
    IF Len(l) = 0 THEN parseBlank(r)
    ELSE IF ~r.wroteHeaders /\ Index(l, ColonSP) # 0 THEN parseHeader(r, l)
    ELSE IF ~r.wroteProtocol THEN parseProtocol(r, l)
    ELSE IF ~r.wroteHeaders THEN parseHeader(r, l)
    ELSE [req |-> r, err |-> Nil]

\* func (r *Request) parse(line string) error
parse(r, l) ==
    IF Len(l) = 0 THEN parseBlank(r)
    ELSE IF ~r.wroteProtocol THEN parseProtocol(r, l)
    ELSE IF ~r.wroteHeaders THEN parseHeader(r, l)
    ELSE [req |-> r, err |-> Nil]

(***************************************************************************)
(* The responses handleConnection_v5 encodes.                              *)
(***************************************************************************)
Slash == <<"/">>

GET == <<"G","E","T">>

dataToWrite == <<"G","o","p","h","e","r","!","!">>

StatusNotFound == <<"H","T","T","P","/","1",".","1"," ","4","0","4"," ","N","o","t"," ","F","o","u","n","d">>

StatusOK == <<"H","T","T","P","/","1",".","1"," ","2","0","0"," ","O","K">>

ContentLengthColon == <<"C","o","n","t","e","n","t","-","L","e","n","g","t","h",":"," ">>

ContentLength0 == ContentLengthColon \o <<"0">>

bufferNotFound == StatusNotFound \o CRLF \o ContentLength0 \o CRLF \o CRLF

\* bufferOK without the empty line between the header and the data
bufferOK_NoBlankLine ==
    StatusOK \o CRLF \o ContentLengthColon \o Itoa(Len(dataToWrite)) \o CRLF
        \o dataToWrite

\* bufferOK whose Content-Length is the length of the buffer, not of the data
bufferOK_LengthOfBuffer ==
    StatusOK \o CRLF \o ContentLengthColon
        \o Itoa(Len(StatusOK \o CRLF \o ContentLengthColon)) \o CRLF
        \o CRLF \o dataToWrite

bufferOK ==
    StatusOK \o CRLF \o ContentLengthColon \o Itoa(Len(dataToWrite)) \o CRLF
        \o CRLF \o dataToWrite

\* what a failing conn.Write can have put on the wire: a short prefix
ShortWrites(buf) == {SubSeq(buf, 1, n) : n \in 0..MaxShortWrite}

(***************************************************************************)
(* The scanner's line source and the handler's loop, as functions of the   *)
(* bytes of a stream.                                                      *)
(***************************************************************************)
LF == <<"\n">>

\* bufio's dropCR: data without one trailing carriage return
dropCR(data) ==
    IF Len(data) > 0 /\ data[Len(data)] = "\r"
    THEN SubSeq(data, 1, Len(data) - 1)
    ELSE data

\* bufio.ScanLines on a non-empty rest of a stream: the next line and what
\* follows it; the last line needs no newline
nextLine(data) ==
    LET i == Index(data, LF)
    IN  IF i > 0
        THEN [line |-> dropCR(SubSeq(data, 1, i - 1)), rest |-> After(data, LF, i)]
        ELSE [line |-> dropCR(data), rest |-> <<>>]

RECURSIVE scanAndParse(_, _)
\* the loop for scanner.Scan() { parse; error check; done check } on the
\* bytes data: the Request, the error and the bytes not yet scanned
scanAndParse(r, data) ==
    IF Len(data) = 0 THEN [req |-> r, err |-> Nil, rest |-> data]
    ELSE LET tok == nextLine(data)
             res == parse(r, tok.line)
         IN  IF res.err # Nil \/ res.req.done
             THEN [req |-> res.req, err |-> res.err, rest |-> tok.rest]
             ELSE scanAndParse(res.req, tok.rest)

(***************************************************************************)
(* handleConnection_v5 on one connection.                                  *)
(***************************************************************************)
\* no server goroutine is running
ServerIdle ==
    /\ mainPc = "none"
    /\ acceptPc = "none"
    /\ dispatchPc = "none"
    /\ chanClosed = FALSE
    /\ listenerClosed = FALSE
    /\ conn = 0
    /\ nAccepted = 0
    /\ dispatched = <<>>
    /\ units = <<>>

Init ==
    /\ req = NewRequest
    /\ err = Nil
    /\ line = <<>>
    /\ parseCalls = 0
    /\ fed = <<>>
    /\ eof = FALSE
    /\ pc = "scan"
    /\ connClosed = FALSE
    /\ connWritten = <<>>
    /\ writeCalls = <<>>
    /\ writeErr = FALSE
    /\ ServerIdle

\* ScanLine without the break when the request is done
ScanLine_NoBreak(l) ==
    /\ pc = "scan"
    /\ parseCalls < MaxLines
    /\ LET res == parse(req, l)
       IN  /\ req' = res.req
           /\ err' = res.err
           /\ line' = l
           /\ parseCalls' = parseCalls + 1
           /\ fed' = Append(fed, l)
           /\ IF res.err # Nil
              THEN /\ connClosed' = TRUE
                   /\ pc' = "returned"
              ELSE /\ connClosed' = connClosed
                   /\ pc' = "scan"
    /\ UNCHANGED <<eof, connWritten, writeCalls, writeErr, serverVars>>

\* ScanLine without the close and return on a parse error
ScanLine_NoReturn(l) ==
    /\ pc = "scan"
    /\ parseCalls < MaxLines
    /\ LET res == parse(req, l)
       IN  /\ req' = res.req
           /\ err' = res.err
           /\ line' = l
           /\ parseCalls' = parseCalls + 1
           /\ fed' = Append(fed, l)
           /\ pc' = IF res.req.done THEN "respond" ELSE "scan"
    /\ UNCHANGED <<eof, connClosed, connWritten, writeCalls, writeErr, serverVars>>

\* one turn of the loop: scanner.Scan() delivers l, parse runs, the error and
\* done checks follow
ScanLine(l) ==
    /\ pc = "scan"
    /\ parseCalls < MaxLines
    /\ LET res == parse(req, l)
       IN  /\ req' = res.req
           /\ err' = res.err
           /\ line' = l
           /\ parseCalls' = parseCalls + 1
           /\ fed' = Append(fed, l)
           /\ IF res.err # Nil
              THEN /\ connClosed' = TRUE
                   /\ pc' = "returned"
              ELSE /\ connClosed' = connClosed
                   /\ pc' = IF res.req.done THEN "respond" ELSE "scan"
    /\ UNCHANGED <<eof, connWritten, writeCalls, writeErr, serverVars>>

\* scanner.Scan() returns false: the stream has ended
ScanEnd ==
    /\ pc = "scan"
    /\ eof' = TRUE
    /\ pc' = "respond"
    /\ UNCHANGED <<req, err, line, parseCalls, fed, connClosed, connWritten,
                   writeCalls, writeErr, serverVars>>

\* the router's 404 branch: the write's result is ignored, the connection closed
RespondNotFound(ok) ==
    /\ pc = "respond"
    /\ req.Path # Slash \/ req.Method # GET
    /\ writeCalls' = Append(writeCalls, bufferNotFound)
    /\ writeErr' = ~ok
    /\ connWritten' \in (IF ok THEN {bufferNotFound} ELSE ShortWrites(bufferNotFound))
    /\ connClosed' = TRUE
    /\ pc' = "returned"
    /\ UNCHANGED <<req, err, line, parseCalls, fed, eof, serverVars>>

\* RespondOK taken unless both the path and the method differ
RespondOK_EitherMatches(ok) ==
    /\ pc = "respond"
    /\ ~(req.Path # Slash /\ req.Method # GET)
    /\ writeCalls' = Append(writeCalls, bufferOK)
    /\ writeErr' = ~ok
    /\ connWritten' \in (IF ok THEN {bufferOK} ELSE ShortWrites(bufferOK))
    /\ connClosed' = ok
    /\ pc' = "returned"
    /\ UNCHANGED <<req, err, line, parseCalls, fed, eof, serverVars>>

\* the 200 branch: a failed write returns before conn.Close()
RespondOK(ok) ==
    /\ pc = "respond"
    /\ ~(req.Path # Slash \/ req.Method # GET)
    /\ writeCalls' = Append(writeCalls, bufferOK)
    /\ writeErr' = ~ok
    /\ connWritten' \in (IF ok THEN {bufferOK} ELSE ShortWrites(bufferOK))
    /\ connClosed' = ok
    /\ pc' = "returned"
    /\ UNCHANGED <<req, err, line, parseCalls, fed, eof, serverVars>>

Next ==
    \/ \E l \in Lines : ScanLine(l)
    \/ ScanEnd
    \/ \E ok \in BOOLEAN : RespondNotFound(ok)
    \/ \E ok \in BOOLEAN : RespondOK(ok)

Spec == Init /\ [][Next]_vars

(***************************************************************************)
(* Request.parse driven freely: any line in any state of the Request.      *)
(***************************************************************************)
InitParse ==
    /\ req = NewRequest
    /\ err = Nil
    /\ line = <<>>
    /\ parseCalls = 0
    /\ fed = <<>>
    /\ eof = FALSE
    /\ pc = "parser"
    /\ connClosed = FALSE
    /\ connWritten = <<>>
    /\ writeCalls = <<>>
    /\ writeErr = FALSE
    /\ ServerIdle

ParseCall(l) ==
    /\ pc = "parser"
    /\ parseCalls < MaxCalls
    /\ LET res == parse(req, l)
       IN  /\ req' = res.req
           /\ err' = res.err
    /\ line' = l
    /\ parseCalls' = parseCalls + 1
    /\ UNCHANGED <<fed, eof, pc, connClosed, connWritten, writeCalls, writeErr,
                   serverVars>>

NextParse == \E l \in Lines : ParseCall(l)

SpecParse == InitParse /\ [][NextParse]_vars

(***************************************************************************)
(* The server: main's shutdown sequence, the accept loop goroutine,        *)
(* handleConnections, and one handling unit per connection received from   *)
(* connChan.  A unit is the handler of this model, handleConnection_v5,    *)
(* as a record of its local variables.  connChan is unbuffered: a send     *)
(* completes together with the receive of handleConnections.  An Accept    *)
(* that fails with another error than net.ErrClosed leaves the state as it *)
(* is.                                                                     *)
(***************************************************************************)
ServerLines == {GetRoot, HostHeader, <<>>}

\* the locals of a handler that has just been started
NewUnit ==
    [req |-> NewRequest, err |-> Nil, fed |-> <<>>, eof |-> FALSE, pc |-> "scan",
     closed |-> FALSE, written |-> <<>>, writeErr |-> FALSE]

\* one turn of the unit's loop on line l
unitScanLine(u, l) ==
    LET res == parse(u.req, l)
    IN  [u EXCEPT !.req = res.req,
                  !.err = res.err,
                  !.fed = Append(@, l),
                  !.closed = IF res.err # Nil THEN TRUE ELSE @,
                  !.pc = IF res.err # Nil THEN "returned"
                         ELSE IF res.req.done THEN "respond" ELSE "scan"]

\* the unit's scanner.Scan() returns false
unitScanEnd(u) == [u EXCEPT !.eof = TRUE, !.pc = "respond"]

\* the unit's router, write and close; a failing write of a unit is taken to
\* put nothing on the connection (Spec explores the short writes)
unitRespond(u, ok) ==
    IF u.req.Path # Slash \/ u.req.Method # GET
    THEN [u EXCEPT !.written = IF ok THEN bufferNotFound ELSE <<>>,
                   !.writeErr = ~ok, !.closed = TRUE, !.pc = "returned"]
    ELSE [u EXCEPT !.written = IF ok THEN bufferOK ELSE <<>>,
                   !.writeErr = ~ok, !.closed = ok, !.pc = "returned"]

\* the process runs: main has not returned and no goroutine has panicked
Alive == mainPc # "exited" /\ acceptPc # "panic"

handlerIdle ==
    /\ req = NewRequest
    /\ err = Nil
    /\ line = <<>>
    /\ parseCalls = 0
    /\ fed = <<>>
    /\ eof = FALSE
    /\ pc = "server"
    /\ connClosed = FALSE
    /\ connWritten = <<>>
    /\ writeCalls = <<>>
    /\ writeErr = FALSE

handlerVars ==
    <<req, err, line, parseCalls, fed, eof, pc, connClosed, connWritten,
      writeCalls, writeErr>>

InitServer ==
    /\ handlerIdle
    /\ mainPc = "select"
    /\ acceptPc = "accept"
    /\ dispatchPc = "range"
    /\ chanClosed = FALSE
    /\ listenerClosed = FALSE
    /\ conn = 0
    /\ nAccepted = 0
    /\ dispatched = <<>>
    /\ units = <<>>

\* listener.Accept() returns a connection
Accept ==
    /\ Alive
    /\ acceptPc = "accept"
    /\ ~listenerClosed
    /\ nAccepted < MaxConns
    /\ nAccepted' = nAccepted + 1
    /\ conn' = nAccepted + 1
    /\ acceptPc' = "send"
    /\ UNCHANGED <<handlerVars, mainPc, dispatchPc, chanClosed, listenerClosed,
                   dispatched, units>>

\* listener.Accept() fails with net.ErrClosed: the accept loop returns
AcceptClosed ==
    /\ Alive
    /\ acceptPc = "accept"
    /\ listenerClosed
    /\ acceptPc' = "returned"
    /\ UNCHANGED <<handlerVars, mainPc, dispatchPc, chanClosed, listenerClosed, conn,
                   nAccepted, dispatched, units>>

\* connChan <- conn meets the receive of handleConnections, which starts
\* the unit: go handleConnection(conn)
Dispatch ==
    /\ Alive
    /\ acceptPc = "send"
    /\ ~chanClosed
    /\ dispatchPc = "range"
    /\ dispatched' = Append(dispatched, conn)
    /\ units' = [c \in (DOMAIN units) \cup {conn} |-> IF c = conn THEN NewUnit ELSE units[c]]
    /\ acceptPc' = "accept"
    /\ UNCHANGED <<handlerVars, mainPc, dispatchPc, chanClosed, listenerClosed, conn,
                   nAccepted>>

\* connChan <- conn on the closed channel: the goroutine panics
SendOnClosed ==
    /\ Alive
    /\ acceptPc = "send"
    /\ chanClosed
    /\ acceptPc' = "panic"
    /\ UNCHANGED <<handlerVars, mainPc, dispatchPc, chanClosed, listenerClosed, conn,
                   nAccepted, dispatched, units>>

\* the range over connChan ends: the channel is closed
DispatcherEnd ==
    /\ Alive
    /\ dispatchPc = "range"
    /\ chanClosed
    /\ dispatchPc' = "returned"
    /\ UNCHANGED <<handlerVars, mainPc, acceptPc, chanClosed, listenerClosed, conn,
                   nAccepted, dispatched, units>>

\* the signal arrives: close(connChan)
MainCloseChan ==
    /\ Alive
    /\ mainPc = "select"
    /\ chanClosed' = TRUE
    /\ mainPc' = "closeListener"
    /\ UNCHANGED <<handlerVars, acceptPc, dispatchPc, listenerClosed, conn, nAccepted,
                   dispatched, units>>

\* listener.Close()
MainCloseListener ==
    /\ Alive
    /\ mainPc = "closeListener"
    /\ listenerClosed' = TRUE
    /\ mainPc' = "return"
    /\ UNCHANGED <<handlerVars, acceptPc, dispatchPc, chanClosed, conn, nAccepted,
                   dispatched, units>>

\* main returns and the process ends
MainReturn ==
    /\ Alive
    /\ mainPc = "return"
    /\ mainPc' = "exited"
    /\ UNCHANGED <<handlerVars, acceptPc, dispatchPc, chanClosed, listenerClosed, conn,
                   nAccepted, dispatched, units>>

\* UnitScanLine with one Request shared by all units
UnitScanLine_SharedRequest(c, l) ==
    /\ Alive
    /\ units[c].pc = "scan"
    /\ Len(units[c].fed) < MaxUnitLines
    /\ units' = [d \in DOMAIN units |->
                    IF d = c THEN unitScanLine(units[c], l)
                    ELSE [units[d] EXCEPT !.req = unitScanLine(units[c], l).req]]
    /\ UNCHANGED <<handlerVars, mainPc, acceptPc, dispatchPc, chanClosed,
                   listenerClosed, conn, nAccepted, dispatched>>

\* unit c: one turn of the scan loop
UnitScanLine(c, l) ==
    /\ Alive
    /\ units[c].pc = "scan"
    /\ Len(units[c].fed) < MaxUnitLines
    /\ units' = [units EXCEPT ![c] = unitScanLine(units[c], l)]
    /\ UNCHANGED <<handlerVars, mainPc, acceptPc, dispatchPc, chanClosed,
                   listenerClosed, conn, nAccepted, dispatched>>

\* unit c: the stream ends
UnitScanEnd(c) ==
    /\ Alive
    /\ units[c].pc = "scan"
    /\ units' = [units EXCEPT ![c] = unitScanEnd(units[c])]
    /\ UNCHANGED <<handlerVars, mainPc, acceptPc, dispatchPc, chanClosed,
                   listenerClosed, conn, nAccepted, dispatched>>

\* unit c: the router, the write and the close
UnitRespond(c, ok) ==
    /\ Alive
    /\ units[c].pc = "respond"
    /\ units' = [units EXCEPT ![c] = unitRespond(units[c], ok)]
    /\ UNCHANGED <<handlerVars, mainPc, acceptPc, dispatchPc, chanClosed,
                   listenerClosed, conn, nAccepted, dispatched>>

NextServer ==
    \/ Accept
    \/ AcceptClosed
    \/ Dispatch
    \/ SendOnClosed
    \/ DispatcherEnd
    \/ MainCloseChan
    \/ MainCloseListener
    \/ MainReturn
    \/ \E c \in DOMAIN units : \E l \in ServerLines : UnitScanLine(c, l)
    \/ \E c \in DOMAIN units : UnitScanEnd(c)
    \/ \E c \in DOMAIN units : \E ok \in BOOLEAN : UnitRespond(c, ok)

SpecServer == InitServer /\ [][NextServer]_vars

(***************************************************************************)
(* Properties.  The following definitions describe lines without using     *)
(* the operators Request.parse is modelled with.                           *)
(***************************************************************************)
\* the positions of the spaces of l
Spaces(l) == {i \in 1..Len(l) : l[i] = " "}

\* the number of fields single spaces divide l into
NumFields(l) == Cardinality(Spaces(l)) + 1

SetMin(S) == CHOOSE x \in S : \A y \in S : x <= y

SetMax(S) == CHOOSE x \in S : \A y \in S : y <= x

\* the k-th field of a line of three fields
Field(l, k) ==
    LET a == SetMin(Spaces(l))
        b == SetMax(Spaces(l))
    IN  CASE k = 1 -> SubSeq(l, 1, a - 1)
          [] k = 2 -> SubSeq(l, a + 1, b - 1)
          [] k = 3 -> SubSeq(l, b + 1, Len(l))

\* the positions at which ": " starts in l
Separators(l) == {i \in 1..(Len(l) - 1) : l[i] = ":" /\ l[i + 1] = " "}

\* l is a header line, Name: value
IsHeaderLine(l) == Separators(l) # {}

HeaderName(l) == SubSeq(l, 1, SetMin(Separators(l)) - 1)

HeaderValue(l) == SubSeq(l, SetMin(Separators(l)) + 2, Len(l))

\* a start line of three fields, header lines, a zero-length line
WellFormedInput(ls) ==
    /\ Len(ls) >= 2
    /\ NumFields(ls[1]) = 3
    /\ \A i \in 2..(Len(ls) - 1) : IsHeaderLine(ls[i])
    /\ ls[Len(ls)] = <<>>

\* line i of ls is the last header line of its name, names compared lower-cased
LastOfName(ls, i) ==
    \A j \in (i + 1)..(Len(ls) - 1) :
        ToLower(HeaderName(ls[j])) # ToLower(HeaderName(ls[i]))

host == <<"h","o","s","t">>

localhost8080 == <<"l","o","c","a","l","h","o","s","t",":","8","0","8","0">>

contentLength == <<"c","o","n","t","e","n","t","-","l","e","n","g","t","h">>

RECURSIVE Atoi(_)
\* the number a string of digits denotes
Atoi(s) ==
    IF Len(s) = 0 THEN 0
    ELSE 10 * Atoi(SubSeq(s, 1, Len(s) - 1))
           + ((CHOOSE d \in 1..10 : Digits[d] = s[Len(s)]) - 1)

IsNumber(s) == Len(s) > 0 /\ \A i \in 1..Len(s) : \E d \in 1..10 : Digits[d] = s[i]

\* C1: once handleConnection_v5 has fed a well-formed input (a start line of
\* three fields, header lines, a zero-length line) to parse, no error was
\* returned, Method, Path and Protocol are the three fields in order, Headers
\* maps the lower-cased name of every header line to the lower-cased value of
\* the last line of that name, and done is true; for GET / HTTP/1.1 with
\* Host: localhost:8080 the header map is exactly host -> localhost:8080.
C1_WellFormedInputParsed ==
    (pc # "scan" /\ WellFormedInput(fed)) =>
        /\ err = Nil
        /\ req.Method = Field(fed[1], 1)
        /\ req.Path = Field(fed[1], 2)
        /\ req.Protocol = Field(fed[1], 3)
        /\ \A i \in 2..(Len(fed) - 1) :
              LastOfName(fed, i) =>
                  /\ ToLower(HeaderName(fed[i])) \in DOMAIN req.Headers
                  /\ req.Headers[ToLower(HeaderName(fed[i]))]
                        = ToLower(HeaderValue(fed[i]))
        /\ req.done
        /\ (fed = <<GetRoot, HostHeader, <<>>>>) =>
              req.Headers = (host :> localhost8080)

C1_Witness ==
    /\ pc = "respond"
    /\ fed = <<GetRoot, HostHeader, <<>>>>
    /\ req.Method = GET
    /\ req.Path = Slash
    /\ req.Headers = (host :> localhost8080)
    /\ req.done

\* C2: when the stream ends before a zero-length line was seen, the handling
\* of the connection ends with the request not complete, nothing written and
\* the connection closed.
C2_EofBeforeBlankIsFailure ==
    (pc = "returned" /\ eof /\ ~req.wroteHeaders) =>
        (~req.done /\ connWritten = <<>> /\ connClosed)

\* C3: a line given to parse while the start line is not yet parsed that does
\* not have exactly 3 space-separated fields (a zero-length line included)
\* makes parse return the malformed-start-line error.
C3_NotThreeFieldsIsError ==
    [][(parseCalls' = parseCalls + 1 /\ ~req.wroteProtocol /\ NumFields(line') # 3)
          => err' = ErrProtocol]_vars

\* C4: a non-empty line given to parse after the start line is parsed and
\* before the headers are terminated yields the malformed-header error when
\* it has no ": ", and is otherwise split at the first ": " only: the name is
\* what precedes it and the value is all that follows it, later ": "
\* included (both stored lower-cased).
C4_HeaderSplitAtFirstSeparator ==
    [][(parseCalls' = parseCalls + 1 /\ req.wroteProtocol /\ ~req.wroteHeaders
          /\ line' # <<>>)
          => IF ~IsHeaderLine(line')
             THEN err' = ErrHeader /\ req'.Headers = req.Headers
             ELSE /\ err' = Nil
                  /\ ToLower(HeaderName(line')) \in DOMAIN req'.Headers
                  /\ req'.Headers[ToLower(HeaderName(line'))]
                        = ToLower(HeaderValue(line'))]_vars

C4_Witness ==
    /\ line = HostLower
    /\ err = Nil
    /\ host \in DOMAIN req.Headers
    /\ req.Headers[host] = <<"a", ":", " ", "b">>

\* C5: once parse has returned an error, the handler has returned with the
\* connection closed and no byte written, and from then on no line is given
\* to parse and nothing is written.
C5_ParseErrorClosesSilently ==
    /\ [](err # Nil => (pc = "returned" /\ connClosed /\ connWritten = <<>>))
    /\ [][err # Nil => UNCHANGED <<req, parseCalls, fed, connWritten, connClosed>>]_vars

C5_Witness ==
    /\ err # Nil
    /\ parseCalls >= 2
    /\ pc = "returned"
    /\ connClosed

\* C6: on every path through the handling of a connection, the connection
\* is closed when the handler has returned.
C6_ClosedOnEveryPath == pc = "returned" => connClosed

\* C7: done implies wroteProtocol.
C7_DoneImpliesStartLine == req.done => req.wroteProtocol

\* C8: when wroteProtocol is true, Method and Path are non-empty.
C8_MethodAndPathNonEmpty ==
    req.wroteProtocol => (req.Method # <<>> /\ req.Path # <<>>)

\* C9: when the request is handed to the response layer after the blank
\* line, Body holds exactly n bytes if the headers have content-length n > 0,
\* and is absent if they have no content-length.
C9_BodyReadPerContentLength ==
    (pc # "scan" /\ req.done) =>
        IF contentLength \in DOMAIN req.Headers
        THEN (IsNumber(req.Headers[contentLength])
                /\ Atoi(req.Headers[contentLength]) > 0)
             => Len(req.Body) = Atoi(req.Headers[contentLength])
        ELSE req.Body = <<>>

\* C10: the header map is non-empty only if wroteProtocol is true, whatever
\* lines are given to parse.
C10_HeadersOnlyAfterStartLine == DOMAIN req.Headers # {} => req.wroteProtocol

C10_Witness ==
    /\ DOMAIN req.Headers # {}
    /\ req.wroteProtocol
    /\ req.wroteHeaders

\* C11: wroteHeaders turns from false to true only in a call of parse on a
\* zero-length line and never turns back to false; done is never true while
\* wroteHeaders is false; and no call of parse changes the header map once
\* wroteHeaders is true.
C11_HeadersTerminatedOnce ==
    /\ [](req.done => req.wroteHeaders)
    /\ [][/\ (~req.wroteHeaders /\ req'.wroteHeaders) => line' = <<>>
          /\ req.wroteHeaders => (req'.wroteHeaders /\ req'.Headers = req.Headers)]_vars

C11_Witness ==
    /\ req.wroteProtocol
    /\ req.wroteHeaders
    /\ req.done
    /\ line = HostHeader
    /\ err = Nil
    /\ DOMAIN req.Headers = {}

\* the lower-cased name of each header line of ls (the empty string for the
\* start line and for a zero-length line)
NamesFed(ls) ==
    [i \in 1..Len(ls) |->
        IF i > 1 /\ IsHeaderLine(ls[i]) THEN ToLower(HeaderName(ls[i])) ELSE <<>>]

\* C12: whatever header lines the handler has fed after the start line, in
\* its loop and when it leaves it (the response code leaves the Request as
\* it is), the header map has one entry for each name (names compared
\* lower-cased) and its value is the lower-cased value of the last line of
\* that name, other headers in between or not.
C12_LastWriteWins ==
    (pc \in {"scan", "respond"} /\ err = Nil /\ req.wroteProtocol) =>
        LET names == NamesFed(fed)
            headerLines == {i \in 2..Len(fed) : IsHeaderLine(fed[i])}
        IN  /\ DOMAIN req.Headers = {names[i] : i \in headerLines}
            /\ \A i \in headerLines :
                  (\A j \in headerLines : j > i => names[j] # names[i])
                  => req.Headers[names[i]] = ToLower(HeaderValue(fed[i]))

C12_Witness ==
    /\ pc = "scan"
    /\ fed = <<GetRoot, HostHeader, ContentLength2, HostLower>>
    /\ err = Nil
    /\ DOMAIN req.Headers = {host, contentLength}
    /\ req.Headers[host] = <<"a", ":", " ", "b">>

\* s has no upper-case letter
IsLowerCase(s) == \A i \in 1..Len(s) : \A u \in 1..Len(Upper) : s[i] # Upper[u]

\* C13: every key and every value of the header map is lower-case, and
\* giving a stored pair back to the header branch of the parser as
\* "name: value" is accepted and leaves the header map as it is.
C13_HeadersLowerCase ==
    \A k \in DOMAIN req.Headers :
        /\ IsLowerCase(k)
        /\ IsLowerCase(req.Headers[k])
        /\ parseHeader(req, k \o ColonSP \o req.Headers[k])
              = [req |-> req, err |-> Nil]

C13_Witness ==
    /\ line = HostHeader
    /\ err = Nil
    /\ host \in DOMAIN req.Headers
    /\ req.Headers[host] = localhost8080

\* C14: a call of parse that returns an error leaves every field of the
\* Request as it was before the call.
C14_ErrorLeavesRequestUnchanged ==
    [][(parseCalls' = parseCalls + 1 /\ err' # Nil) => req' = req]_vars

C14_Witness ==
    /\ err = ErrHeader
    /\ req.wroteProtocol
    /\ DOMAIN req.Headers # {}

Response200 ==
    <<"H","T","T","P","/","1",".","1"," ","2","0","0"," ","O","K","\r","\n",
      "C","o","n","t","e","n","t","-","L","e","n","g","t","h",":"," ","8",
      "\r","\n","\r","\n","G","o","p","h","e","r","!","!">>

Response404 ==
    <<"H","T","T","P","/","1",".","1"," ","4","0","4"," ","N","o","t"," ",
      "F","o","u","n","d","\r","\n","C","o","n","t","e","n","t","-","L","e",
      "n","g","t","h",":"," ","0","\r","\n","\r","\n">>

Gopher == <<"G","o","p","h","e","r","!","!">>

\* the positions at which sep starts in s
Occurrences(s, sep) ==
    {i \in 1..(Len(s) - Len(sep) + 1) : \A k \in 1..Len(sep) : s[i + k - 1] = sep[k]}

\* what follows the blank line that starts at position p
BodyAfter(bytes, p) == SubSeq(bytes, p + 4, Len(bytes))

\* with its first blank line at p, bytes is status line, CRLF, one
\* Content-Length header, CRLF, CRLF, body, the header's value being the
\* number of body bytes
LayoutOK(bytes, p) ==
    LET head == SubSeq(bytes, 1, p - 1)
        breaks == Occurrences(head, CRLF)
    IN  /\ Cardinality(breaks) = 1
        /\ LET q == SetMin(breaks)
               status == SubSeq(head, 1, q - 1)
               header == SubSeq(head, q + 2, Len(head))
               value == SubSeq(header, 17, Len(header))
           IN  /\ SubSeq(status, 1, 9) = <<"H","T","T","P","/","1",".","1"," ">>
               /\ SubSeq(header, 1, 16)
                     = <<"C","o","n","t","e","n","t","-","L","e","n","g","t","h",":"," ">>
               /\ IsNumber(value)
               /\ Atoi(value) = Len(bytes) - (p + 3)

\* C15: every response handleConnection_v5 gives to conn.Write is status
\* line, CRLF, one Content-Length header, CRLF, CRLF, body, with the
\* Content-Length equal to the number of body bytes and no other header;
\* with the body Gopher!! it is exactly
\* HTTP/1.1 200 OK\r\nContent-Length: 8\r\n\r\nGopher!!; and a write that
\* succeeds puts exactly these bytes on the connection.
C15_ResponseLayout ==
    \A i \in 1..Len(writeCalls) :
        LET blanks == Occurrences(writeCalls[i], CRLF \o CRLF)
        IN  /\ blanks # {}
            /\ LayoutOK(writeCalls[i], SetMin(blanks))
            /\ BodyAfter(writeCalls[i], SetMin(blanks)) = Gopher
                  => writeCalls[i] = Response200
            /\ ~writeErr => connWritten = writeCalls[i]

C15_Witness ==
    /\ pc = "returned"
    /\ writeCalls = <<Response200>>
    /\ connWritten = Response200

\* re-parsing bytes with the scanner's lines and the parser's rules succeeds
\* and recovers a content-length equal to the length of the body, and the body
RoundTrip(bytes, body) ==
    LET rp == scanAndParse(NewRequest, bytes)
    IN  /\ rp.err = Nil
        /\ rp.req.done
        /\ contentLength \in DOMAIN rp.req.Headers
        /\ IsNumber(rp.req.Headers[contentLength])
        /\ Atoi(rp.req.Headers[contentLength]) = Len(body)
        /\ rp.rest = body

\* C16 as claimed: every response written round-trips through the parser.
C16_EveryResponseRoundTrips ==
    (pc = "returned" /\ writeCalls # <<>> /\ ~writeErr) =>
        RoundTrip(connWritten, IF req.Method = GET /\ req.Path = Slash
                               THEN Gopher ELSE <<>>)

\* C16, amended: the 200 OK response written round-trips through the parser:
\* its lines re-parse without error and give content-length 8 and the body
\* Gopher!! after the blank line.
C16_OKResponseRoundTrips ==
    (pc = "returned" /\ writeCalls # <<>> /\ ~writeErr
       /\ req.Method = GET /\ req.Path = Slash) =>
        RoundTrip(connWritten, Gopher)

C16_Witness ==
    /\ pc = "returned"
    /\ fed = <<GetRoot, HostHeader, <<>>>>
    /\ ~writeErr
    /\ connWritten = Response200
    /\ scanAndParse(NewRequest, connWritten).rest = Gopher

\* C18: once parse has set done or returned an error, the handler gives no
\* further line to parse and Method, Path, Protocol and the header map (the
\* whole Request) never change again.
C18_DoneAndErrorAbsorbing ==
    [][(req.done \/ err # Nil) => UNCHANGED <<req, parseCalls, fed, line>>]_vars

C18_Witness ==
    /\ req.done
    /\ req.wroteProtocol
    /\ pc = "returned"
    /\ parseCalls < MaxLines

\* C20: when the line loop has ended without a parse error and the handler
\* has returned, it has given exactly one response to conn.Write: the 200 OK
\* response with body Gopher!! if Method is GET and Path is /, and otherwise
\* (also with no start line parsed) the 404 Not Found response with
\* Content-Length: 0 and no body; a write that succeeds puts it on the wire.
C20_ExactlyOneResponse ==
    (pc = "returned" /\ err = Nil) =>
        /\ Len(writeCalls) = 1
        /\ writeCalls[1] = IF req.Method = GET /\ req.Path = Slash
                           THEN Response200 ELSE Response404
        /\ ~writeErr => connWritten = writeCalls[1]

C20_Witness ==
    /\ pc = "returned"
    /\ eof
    /\ parseCalls = 0
    /\ req.Method = <<>>
    /\ connWritten = Response404

RECURSIVE parseLines(_, _)
\* the handler's loop run alone on the lines ls: the Request and the error
parseLines(r, ls) ==
    IF Len(ls) = 0 THEN [req |-> r, err |-> Nil]
    ELSE LET res == parse(r, Head(ls))
         IN  IF res.err # Nil \/ res.req.done THEN res
             ELSE parseLines(res.req, Tail(ls))

C19_ShutdownRaceFree ==
    /\ acceptPc # "panic"
    /\ acceptPc \in {"accept", "returned"} => Len(dispatched) = nAccepted

====
